---- MODULE Spec2Model ----
(***************************************************************************)
(* Model of main.py: the transcription pipeline of fb-vid-to-txt.          *)
(* File names are sequences of one-character strings, so that              *)
(* sanitize_filename, os.path.splitext, str.lower and str.endswith are     *)
(* computed the way the code computes them.  The incoming directory is a   *)
(* function from the names of the files it holds to a tag telling what the *)
(* file holds; the done directory, whose files the code never reads, is    *)
(* the set of the names it holds.                                          *)
(***************************************************************************)
EXTENDS Integers, Sequences, FiniteSets, TLC

\* ------------------------------------------------------------------------
\* Bounds
\* ------------------------------------------------------------------------

\* number of clicks on the Start button in one behaviour
MaxRuns == 2

\* length of the names given to sanitize_filename
MaxNameLen == 3

\* ------------------------------------------------------------------------
\* Strings
\* ------------------------------------------------------------------------

\* Python's None, a value that is no file name and no text
None == <<"None">>

UpperCase == <<"A", "B", "E", "G", "M", "P", "V", "W">>
LowerCase == <<"a", "b", "e", "g", "m", "p", "v", "w">>

\* str.lower(), one character
LowerChar(c) ==
    IF \E k \in DOMAIN UpperCase : UpperCase[k] = c
    THEN LowerCase[CHOOSE k \in DOMAIN UpperCase : UpperCase[k] = c]
    ELSE c

\* str.lower()
lower(s) == [k \in DOMAIN s |-> LowerChar(s[k])]

\* str.endswith(suffix)
endswith(s, suffix) ==
    /\ Len(suffix) <= Len(s)
    /\ SubSeq(s, Len(s) - Len(suffix) + 1, Len(s)) = suffix

\* os.path.splitext: the extension starts at the last dot, unless only dots
\* precede it
splitext(s) ==
    LET dots == {k \in DOMAIN s : s[k] = "."}
        last == CHOOSE k \in dots : \A j \in dots : j <= k
    IN  IF dots # {} /\ (\E j \in 1..(last - 1) : s[j] # ".")
        THEN <<SubSeq(s, 1, last - 1), SubSeq(s, last, Len(s))>>
        ELSE <<s, <<>> >>

\* the characters removed by re.sub(r'[\\/*?:"<>|()]', "", filename)
Problematic == {"\\", "/", "*", "?", ":", "\"", "<", ">", "|", "(", ")"}

RECURSIVE re_sub(_)
re_sub(s) ==
    IF s = <<>> THEN <<>>
    ELSE IF Head(s) \in Problematic THEN re_sub(Tail(s))
    ELSE <<Head(s)>> \o re_sub(Tail(s))

\* str.replace(' ', '_')
replace(s) == [k \in DOMAIN s |-> IF s[k] = " " THEN "_" ELSE s[k]]

\* unicodedata.normalize('NFKD', c).encode('ASCII', 'ignore') of one
\* character: U+00E9 decomposes to e + a combining accent (dropped),
\* U+FF0F (fullwidth solidus) to /, U+FF08 (fullwidth parenthesis) to (,
\* U+3000 (ideographic space) to a space, U+05E9 (Hebrew shin) has no ASCII
\* form and is dropped; an ASCII character is kept.
NFKD_ASCII(c) ==
    CASE c = "U+00E9" -> <<"e">>
      [] c = "U+FF0F" -> <<"/">>
      [] c = "U+FF08" -> <<"(">>
      [] c = "U+3000" -> <<" ">>
      [] c = "U+05E9" -> <<>>
      [] OTHER -> <<c>>

RECURSIVE normalize(_)
normalize(s) ==
    IF s = <<>> THEN <<>> ELSE NFKD_ASCII(Head(s)) \o normalize(Tail(s))

sanitize_filename(name) == normalize(replace(re_sub(name)))

\* ------------------------------------------------------------------------
\* File names of the model
\* ------------------------------------------------------------------------

mp3 == <<".", "m", "p", "3">>
mp4 == <<".", "m", "p", "4">>
webm == <<".", "w", "e", "b", "m">>
mpeg == <<".", "m", "p", "e", "g">>
m4a == <<".", "m", "4", "a">>
mpga == <<".", "m", "p", "g", "a">>
wav == <<".", "w", "a", "v">>
mkv == <<".", "m", "k", "v">>
txt == <<".", "t", "x", "t">>

\* names the user uploads: "a.mp3" and "(a).MP4"
RawUploadNames ==
    { <<"a">> \o mp3,
      <<"(", "a", ")", ".", "M", "P", "4">> }

\* the strings generate_random_string returns, each written as one symbol
RandomIds == {"k3x9q2mz"}

\* the extension yt-dlp gives the downloaded file: the one of the container
\* it picked, which need not be one process_single_file knows (.mkv here)
FetchExts == {mkv}

\* outtmpl: fb_video_{random_id}.%(ext)s
FetchName(id, ext) ==
    <<"f", "b", "_", "v", "i", "d", "e", "o", "_", id>> \o ext

FetchId(name) == name[10]

\* ------------------------------------------------------------------------
\* Directories
\* ------------------------------------------------------------------------

EmptyDir == [n \in {} |-> "x"]

exists(dir, n) == n \in DOMAIN dir

remove(dir, n) == [m \in DOMAIN dir \ {n} |-> dir[m]]

write(dir, n, tag) ==
    [m \in DOMAIN dir \cup {n} |-> IF m = n THEN tag ELSE dir[m]]

\* os.listdir returns the names in arbitrary order
RECURSIVE listdir(_)
listdir(S) ==
    IF S = {} THEN { <<>> }
    ELSE UNION { { <<x>> \o p : p \in listdir(S \ {x}) } : x \in S }

Range(s) == {s[k] : k \in DOMAIN s}

\* ------------------------------------------------------------------------
\* External capabilities: the outcomes the code distinguishes
\* ------------------------------------------------------------------------

\* ffmpeg run: success; ffmpeg.Error; a clean return without output file or
\* with an empty one; ffmpeg binary missing (FileNotFoundError)
FfmpegOutcomes ==
    {"ok", "error", "not_created", "empty", "not_installed"}

Transcripts == {"Hello world."}
Analyses == {"Shalom olam."}

Outcomes ==
    [ffmpeg : FfmpegOutcomes,
     whisper : Transcripts \cup {"exception"},
     gpt : Analyses \cup {"exception"},
     move : {"ok", "exception"},
     rm : {"ok", "exception"}]

\* ------------------------------------------------------------------------
\* Pipeline functions
\* ------------------------------------------------------------------------

\* extract_audio: the directory afterwards and whether an exception leaves
\* the function
extract_audio(dir, output_file, ffmpeg) ==
    LET cleared == IF exists(dir, output_file) THEN remove(dir, output_file)
                   ELSE dir
    IN  CASE ffmpeg = "ok" ->
               [dir |-> write(cleared, output_file, "audio"), raised |-> FALSE]
          [] ffmpeg = "empty" ->
               [dir |-> write(cleared, output_file, "empty"), raised |-> TRUE]
          [] OTHER ->
               [dir |-> cleared, raised |-> TRUE]

ApiErrorText == "Error: Could not get response from AI."

\* get_gpt4o_response returning nothing when the API call fails
get_gpt4o_response_none(filename, user_input, gpt) ==
    IF gpt = "exception"
    THEN [text |-> None,
          log |-> << <<"analyzing", filename>>, <<"api_error", filename>> >>]
    ELSE [text |-> gpt, log |-> << <<"analyzing", filename>> >>]

\* get_gpt4o_response: the returned text and the lines logged
get_gpt4o_response(filename, user_input, gpt) ==
    IF gpt = "exception"
    THEN [text |-> ApiErrorText,
          log |-> << <<"analyzing", filename>>, <<"api_error", filename>> >>]
    ELSE [text |-> gpt, log |-> << <<"analyzing", filename>> >>]

\* the combined artifact with the analysis section first
final_text_swapped(transcription_text, analyzed_text_ai) ==
    <<"--- AI Analysis & Translation (Hebrew) ---\n", analyzed_text_ai, "\n\n",
      "--- Original Transcription ---\n", transcription_text>>

\* the combined artifact, as the sequence of the pieces concatenated
final_text(transcription_text, analyzed_text_ai) ==
    <<"--- Original Transcription ---\n", transcription_text, "\n\n",
      "--- AI Analysis & Translation (Hebrew) ---\n", analyzed_text_ai>>

IsVideo(filename) ==
    \/ endswith(lower(filename), mp4)
    \/ endswith(lower(filename), webm)
    \/ endswith(lower(filename), mpeg)

\* the try block copying the original to done instead of moving it
cleanup_copy(filename, audio_file_path, inc, dn, move, rm) ==
    LET moving == << <<"moving", filename>> >>
        failed == << <<"cleanup_error", filename>> >>
        dn1 == dn \cup {filename}
    IN  IF move = "exception"
        THEN [to_transcribe |-> inc, done_vids |-> dn, log |-> moving \o failed]
        ELSE IF audio_file_path # filename /\ exists(inc, audio_file_path)
        THEN IF rm = "exception"
             THEN [to_transcribe |-> inc, done_vids |-> dn1,
                   log |-> moving \o << <<"removing", filename>> >> \o failed]
             ELSE [to_transcribe |-> remove(inc, audio_file_path),
                   done_vids |-> dn1,
                   log |-> moving \o << <<"removing", filename>> >>]
        ELSE [to_transcribe |-> inc, done_vids |-> dn1, log |-> moving]

\* the try block that ends process_single_file: move the original to done,
\* remove the working audio file
cleanup(filename, audio_file_path, inc, dn, move, rm) ==
    LET moving == << <<"moving", filename>> >>
        failed == << <<"cleanup_error", filename>> >>
        inc1 == remove(inc, filename)
        dn1 == dn \cup {filename}
    IN  IF move = "exception"
        THEN [to_transcribe |-> inc, done_vids |-> dn, log |-> moving \o failed]
        ELSE IF audio_file_path # filename /\ exists(inc1, audio_file_path)
        THEN IF rm = "exception"
             THEN [to_transcribe |-> inc1, done_vids |-> dn1,
                   log |-> moving \o << <<"removing", filename>> >> \o failed]
             ELSE [to_transcribe |-> remove(inc1, audio_file_path),
                   done_vids |-> dn1,
                   log |-> moving \o << <<"removing", filename>> >>]
        ELSE [to_transcribe |-> inc1, done_vids |-> dn1, log |-> moving]

\* return None, None
Failure(inc, dn, lg) ==
    [to_transcribe |-> inc, done_vids |-> dn,
     txt_filename |-> None, content |-> None, log |-> lg]

\* the return value when an error of the cleanup makes the item fail
Success_unless_cleanup_fails(filename, final_text_content, fin, lg) ==
    IF <<"cleanup_error", filename>> \in Range(fin.log)
    THEN Failure(fin.to_transcribe, fin.done_vids, lg \o fin.log)
    ELSE [to_transcribe |-> fin.to_transcribe,
          done_vids |-> fin.done_vids,
          txt_filename |-> splitext(filename)[1] \o txt,
          content |-> final_text_content,
          log |-> lg \o fin.log \o << <<"finished", filename>> >>]

\* return txt_filename, final_text_content (lines 204, 215-217), fin being
\* what the cleanup did and lg what was logged before it
Success(filename, final_text_content, fin, lg) ==
    [to_transcribe |-> fin.to_transcribe,
     done_vids |-> fin.done_vids,
     txt_filename |-> splitext(filename)[1] \o txt,
     content |-> final_text_content,
     log |-> lg \o fin.log \o << <<"finished", filename>> >>]

\* process_single_file going on to the transcription, on the original file,
\* when the extraction raised
process_single_file_goes_on(filename, inc, dn, o) ==
    LET starting == << <<"starting", filename>> >>
        output_audio_file == splitext(filename)[1] \o mp3
        ex == IF IsVideo(filename)
              THEN extract_audio(inc, output_audio_file, o.ffmpeg)
              ELSE [dir |-> inc, raised |-> FALSE]
        audio_file_path == IF IsVideo(filename) /\ ~ex.raised
                           THEN output_audio_file ELSE filename
        extracting == IF ~IsVideo(filename) THEN <<>>
                      ELSE IF ex.raised
                      THEN << <<"extracting", filename>>,
                              <<"extraction_failed", filename>> >>
                      ELSE << <<"extracting", filename>>,
                              <<"extracted", filename>> >>
        transcribing == << <<"transcribing", filename>> >>
        ai == get_gpt4o_response(filename, o.whisper, o.gpt)
        fin == cleanup(filename, audio_file_path, ex.dir, dn, o.move, o.rm)
    IN  IF ~exists(inc, filename)
        THEN Failure(inc, dn, starting \o << <<"not_found", filename>> >>)
        ELSE IF o.whisper = "exception"
        THEN Failure(ex.dir, dn,
                     starting \o extracting \o transcribing
                       \o << <<"transcription_failed", filename>> >>)
        ELSE Success(filename, final_text(o.whisper, ai.text), fin,
                     starting \o extracting \o transcribing
                       \o << <<"transcribed", filename>> >> \o ai.log)

\* process_single_file on the directories inc and dn, o being what the
\* external capabilities do during the call
process_single_file(filename, inc, dn, o) ==
    LET starting == << <<"starting", filename>> >>
        output_audio_file == splitext(filename)[1] \o mp3
        ex == IF IsVideo(filename)
              THEN extract_audio(inc, output_audio_file, o.ffmpeg)
              ELSE [dir |-> inc, raised |-> FALSE]
        audio_file_path == IF IsVideo(filename) THEN output_audio_file
                           ELSE filename
        extracting == IF ~IsVideo(filename) THEN <<>>
                      ELSE IF ex.raised
                      THEN << <<"extracting", filename>>,
                              <<"extraction_failed", filename>> >>
                      ELSE << <<"extracting", filename>>,
                              <<"extracted", filename>> >>
        transcribing == << <<"transcribing", filename>> >>
        ai == get_gpt4o_response(filename, o.whisper, o.gpt)
        fin == cleanup(filename, audio_file_path, ex.dir, dn, o.move, o.rm)
    IN  IF ~exists(inc, filename)
        THEN Failure(inc, dn, starting \o << <<"not_found", filename>> >>)
        ELSE IF ex.raised
        THEN Failure(ex.dir, dn, starting \o extracting)
        ELSE IF o.whisper = "exception"
        THEN Failure(ex.dir, dn,
                     starting \o extracting \o transcribing
                       \o << <<"transcription_failed", filename>> >>)
        ELSE Success(filename, final_text(o.whisper, ai.text), fin,
                     starting \o extracting \o transcribing
                       \o << <<"transcribed", filename>> >> \o ai.log)

\* the outcomes that differ for this call: a capability the call does not
\* reach is given one fixed outcome
Relevant(filename, inc) ==
    {o \in Outcomes :
        /\ (~exists(inc, filename) \/ ~IsVideo(filename)) => o.ffmpeg = "ok"
        /\ (~exists(inc, filename) \/ (IsVideo(filename) /\ o.ffmpeg # "ok"))
              => o.whisper = "exception"
        /\ o.whisper = "exception" => o.gpt = "exception" /\ o.move = "ok"
        /\ (o.whisper = "exception" \/ o.move = "exception"
              \/ ~IsVideo(filename)) => o.rm = "ok"}

\* download_facebook_video, fetched being what yt-dlp produced (None when it
\* raised): the download directory afterwards, the value returned and the
\* lines logged
download_facebook_video(download_dir, fetched) ==
    IF fetched = None
    THEN [dir |-> download_dir, base_filename |-> None,
          log |-> << <<"download_attempt", None>>, <<"download_error", None>> >>]
    ELSE [dir |-> write(download_dir, fetched, "fetched"),
          base_filename |-> fetched,
          log |-> << <<"download_attempt", None>> >>]

\* the mapping of the session kept when Start is clicked
NewSummary_kept(files) == files

\* st.session_state.processed_files = {} (line 267)
NewSummary(files) == EmptyDir

\* selected_files when the listing is appended without the membership test
SelectedFiles_extend(downloaded, listing) ==
    (IF downloaded # None THEN <<downloaded>> ELSE <<>>) \o listing

\* selected_files when a failed download ends the selection
SelectedFiles_abort(downloaded, listing) ==
    IF downloaded = None THEN <<>> ELSE <<downloaded>> \o
        SelectSeq(listing, LAMBDA f : f # downloaded)

\* selected_files after lines 268-278
SelectedFiles(downloaded, listing) ==
    LET first == IF downloaded # None THEN <<downloaded>> ELSE <<>>
    IN  first \o SelectSeq(listing, LAMBDA f : f \notin Range(first))

\* a Python value used as a condition
Truthy(x) == x # None /\ x # <<>>

\* the loop body when a failed item is not counted
Tally_uncounted(txt_filename, content, files, succ, fail) ==
    IF txt_filename # None /\ content # None
    THEN [processed_files |-> write(files, txt_filename, content),
          successful_files |-> succ + 1, failed_files |-> fail]
    ELSE [processed_files |-> files,
          successful_files |-> succ, failed_files |-> fail]

\* the body of the for loop after the call: the mapping and the counters
Tally(txt_filename, content, files, succ, fail) ==
    IF Truthy(txt_filename) /\ Truthy(content)
    THEN [processed_files |-> write(files, txt_filename, content),
          successful_files |-> succ + 1, failed_files |-> fail]
    ELSE [processed_files |-> files,
          successful_files |-> succ, failed_files |-> fail + 1]

\* the message chosen when the test for no successes is missing
Classification_two(succ, fail) ==
    IF fail = 0 THEN "all-succeeded" ELSE "mixed"

\* the message chosen at lines 293-301
Classification(succ, fail) ==
    IF fail = 0 THEN "all-succeeded"
    ELSE IF succ = 0 THEN "all-failed"
    ELSE "mixed"

\* ------------------------------------------------------------------------
\* State
\* ------------------------------------------------------------------------

VARIABLES
    to_transcribe,     \* the incoming directory
    done_vids,         \* the done directory
    processed_files,   \* st.session_state.processed_files
    downloaded_file,   \* run_app: result of the download of this run
    selected_files,    \* run_app: the candidates of this run
    idx,               \* position of the for loop in selected_files
    txt_filename,      \* result of the last process_single_file call
    content,           \* result of the last process_single_file call
    successful_files,
    failed_files,
    report,            \* the message shown when the run ends
    log,               \* lines logged since the Start button was clicked
    pc,                \* "idle", "loop" (inside the for loop), "done"
    runs,              \* clicks on the Start button so far
    uploaded_name,     \* uploaded_file.name, the argument of sanitize_filename
    sanitized_name     \* the value sanitize_filename returned

vars == <<to_transcribe, done_vids, processed_files, downloaded_file,
          selected_files, idx, txt_filename, content,
          successful_files, failed_files, report, log, pc, runs,
          uploaded_name, sanitized_name>>

Init ==
    /\ to_transcribe = EmptyDir
    /\ done_vids = {}
    /\ processed_files = EmptyDir
    /\ downloaded_file = None
    /\ selected_files = <<>>
    /\ idx = 1
    /\ txt_filename = None
    /\ content = None
    /\ successful_files = 0
    /\ failed_files = 0
    /\ report = "none"
    /\ log = <<>>
    /\ pc = "idle"
    /\ runs = 0
    /\ uploaded_name = None
    /\ sanitized_name = None

\* a script rerun that stages one uploaded file (lines 256-263) and in which
\* the Start button is not clicked: the locals and the messages of the
\* previous script run are gone, the session state and the directories stay
Upload ==
    /\ pc # "loop"
    /\ \E raw \in RawUploadNames :
          to_transcribe' = write(to_transcribe, sanitize_filename(raw), "upload")
    /\ pc' = "idle"
    /\ downloaded_file' = None
    /\ selected_files' = <<>>
    /\ idx' = 1
    /\ txt_filename' = None
    /\ content' = None
    /\ successful_files' = 0
    /\ failed_files' = 0
    /\ report' = "none"
    /\ log' = <<>>
    /\ UNCHANGED <<done_vids, processed_files, runs, uploaded_name,
                   sanitized_name>>

\* ids of the downloads whose files are still in a directory; a new random
\* id is taken to differ from them
UsedIds ==
    {FetchId(n) : n \in {m \in DOMAIN to_transcribe \cup done_vids :
                            Len(m) >= 10 /\ m[1] = "f"}}

\* what the download can produce: nothing (None), or a new file
Fetchable ==
    {None} \cup {FetchName(id, ext) :
                    id \in RandomIds \ UsedIds,
                    ext \in FetchExts}

\* the Start button, up to the for loop (lines 265-283, 302-304)
StartRun ==
    /\ pc # "loop"
    /\ runs < MaxRuns
    /\ runs' = runs + 1
    /\ \E url \in BOOLEAN : \E fetched \in (IF url THEN Fetchable ELSE {None}) :
         LET dl == IF url THEN download_facebook_video(to_transcribe, fetched)
                   ELSE [dir |-> to_transcribe, base_filename |-> None,
                         log |-> <<>>]
         IN  /\ to_transcribe' = dl.dir
             /\ downloaded_file' = dl.base_filename
             /\ log' = << <<"start_clicked", None>> >> \o dl.log
             /\ \E files_in_dir \in listdir(DOMAIN dl.dir) :
                   selected_files' = SelectedFiles(dl.base_filename,
                                                   files_in_dir)
    /\ processed_files' = NewSummary(processed_files)
    /\ idx' = 1
    /\ txt_filename' = None
    /\ content' = None
    /\ successful_files' = 0
    /\ failed_files' = 0
    /\ IF selected_files' = <<>>
       THEN report' = "no-files" /\ pc' = "done"
       ELSE report' = "none" /\ pc' = "loop"
    /\ UNCHANGED <<done_vids, uploaded_name, sanitized_name>>

\* one iteration of the for loop (lines 285-291)
ProcessFile ==
    /\ pc = "loop"
    /\ idx <= Len(selected_files)
    /\ \E o \in Relevant(selected_files[idx], to_transcribe) :
         LET r == process_single_file(selected_files[idx], to_transcribe,
                                      done_vids, o)
             t == Tally(r.txt_filename, r.content, processed_files,
                        successful_files, failed_files)
         IN  /\ to_transcribe' = r.to_transcribe
             /\ done_vids' = r.done_vids
             /\ txt_filename' = r.txt_filename
             /\ content' = r.content
             /\ log' = log \o r.log
             /\ processed_files' = t.processed_files
             /\ successful_files' = t.successful_files
             /\ failed_files' = t.failed_files
    /\ idx' = idx + 1
    /\ UNCHANGED <<downloaded_file, selected_files, report, pc, runs,
                   uploaded_name, sanitized_name>>

\* the end of the run (lines 293-301)
Report ==
    /\ pc = "loop"
    /\ idx > Len(selected_files)
    /\ report' = Classification(successful_files, failed_files)
    /\ pc' = "done"
    /\ UNCHANGED <<to_transcribe, done_vids, processed_files, downloaded_file,
                   selected_files, idx, txt_filename, content,
                   successful_files, failed_files, log, runs,
                   uploaded_name, sanitized_name>>

Next == Upload \/ StartRun \/ ProcessFile \/ Report

Spec == Init /\ [][Next]_vars

\* ------------------------------------------------------------------------
\* sanitize_filename on its own: every name of at most MaxNameLen characters
\* over NameChars is given to it once
\* ------------------------------------------------------------------------

\* characters of uploaded names: letters, a dot, a space, characters the
\* pattern of line 55 removes, and non-ASCII characters
NameChars ==
    {"a", "B", ".", " ", "(", "/", "U+00E9", "U+FF0F", "U+FF08", "U+3000",
     "U+05E9"}

NamesUpTo(n) == UNION {[1..k -> NameChars] : k \in 0..n}

InitSanitize ==
    /\ uploaded_name \in NamesUpTo(MaxNameLen)
    /\ sanitized_name = None
    /\ to_transcribe = EmptyDir
    /\ done_vids = {}
    /\ processed_files = EmptyDir
    /\ downloaded_file = None
    /\ selected_files = <<>>
    /\ idx = 1
    /\ txt_filename = None
    /\ content = None
    /\ successful_files = 0
    /\ failed_files = 0
    /\ report = "none"
    /\ log = <<>>
    /\ pc = "idle"
    /\ runs = 0

\* line 259: sanitized_name = sanitize_filename(uploaded_file.name)
Sanitize ==
    /\ sanitized_name = None
    /\ sanitized_name' = sanitize_filename(uploaded_name)
    /\ UNCHANGED <<to_transcribe, done_vids, processed_files, downloaded_file,
                   selected_files, idx, txt_filename, content,
                   successful_files, failed_files, report, log, pc, runs,
                   uploaded_name>>

NextSanitize == Sanitize

SpecSanitize == InitSanitize /\ [][NextSanitize]_vars

\* ------------------------------------------------------------------------
\* Reading the state
\* ------------------------------------------------------------------------

Logged(ev, f) == \E k \in DOMAIN log : log[k] = <<ev, f>>

TimesLogged(lg, ev, f) == Cardinality({k \in DOMAIN lg : lg[k] = <<ev, f>>})

\* the move of f to done raised: the cleanup error follows "moving" directly
MoveFailed(lg, f) ==
    \E k \in DOMAIN lg :
        /\ lg[k] = <<"moving", f>>
        /\ k < Len(lg)
        /\ lg[k + 1] = <<"cleanup_error", f>>

Moved(lg, f) ==
    /\ \E k \in DOMAIN lg : lg[k] = <<"moving", f>>
    /\ ~MoveFailed(lg, f)

\* the step is one iteration of the for loop, on selected_files[idx]
Iteration == pc = "loop" /\ idx' = idx + 1

\* the step is a click on Start with no URL entered
ClickWithoutUrl == runs' = runs + 1 /\ log' = << <<"start_clicked", None>> >>

Both == DOMAIN to_transcribe \cap done_vids

txt_name(f) == splitext(f)[1] \o txt

\* the extensions the uploader accepts (line 240), the supported ones
uploader_types == {mp4, m4a, mp3, webm, mpga, wav, mpeg}

Supported(f) == \E e \in uploader_types : endswith(lower(f), e)

\* ------------------------------------------------------------------------
\* C1
\* ------------------------------------------------------------------------

\* C1 as stated: in every reachable state no file name is in both the
\* incoming directory and the done directory.
C1_NeverInBoth == Both = {}

\* C1 amended: the finalize step moves and never copies.  A name that enters
\* both directories in a step was not in incoming before the step (it was
\* staged again by the step), and an item whose move to done succeeded is in
\* done and no longer in incoming right after its iteration.
C1_MoveNotCopy ==
    [][ /\ \A n \in (DOMAIN to_transcribe' \cap done_vids') \ Both :
              n \notin DOMAIN to_transcribe
        /\ (Iteration /\ Moved(log', selected_files[idx]))
              => /\ selected_files[idx] \in done_vids'
                 /\ selected_files[idx] \notin DOMAIN to_transcribe' ]_vars

C1_Witness ==
    \E k \in DOMAIN selected_files :
        /\ k < idx
        /\ Moved(log, selected_files[k])
        /\ selected_files[k] \in done_vids
        /\ selected_files[k] \notin DOMAIN to_transcribe

\* ------------------------------------------------------------------------
\* C2
\* ------------------------------------------------------------------------

\* the iteration is one in which the analysis capability failed
AnalysisFailedNow == Iteration /\ <<"api_error", selected_files[idx]>> \in Range(log')

\* C2 as stated: when the analysis fails after a successful transcription,
\* the item is counted as failed, no artifact is recorded for it and its
\* original stays in incoming and is not moved to done.
C2_AnalysisFailureStops ==
    [][ AnalysisFailedNow =>
          /\ failed_files' = failed_files + 1
          /\ successful_files' = successful_files
          /\ processed_files' = processed_files
          /\ selected_files[idx] \in DOMAIN to_transcribe'
          /\ done_vids' = done_vids ]_vars

\* C2 amended: when the analysis fails after a successful transcription, the
\* pipeline goes on.  The error text returned in place of the analysis is
\* composed into the artifact, the artifact is recorded in the mapping under
\* the item's artifact name, the item is counted as succeeded, and the
\* original is moved to done unless the move itself fails.
C2_AnalysisFailureSucceeds ==
    [][ AnalysisFailedNow =>
          /\ successful_files' = successful_files + 1
          /\ failed_files' = failed_files
          /\ txt_filename' = txt_name(selected_files[idx])
          /\ content'[2] \in Transcripts
          /\ content' = final_text(content'[2], ApiErrorText)
          /\ txt_filename' \in DOMAIN processed_files'
          /\ processed_files'[txt_filename'] = content'
          /\ IF MoveFailed(log', selected_files[idx])
             THEN /\ selected_files[idx] \in DOMAIN to_transcribe'
                  /\ done_vids' = done_vids
             ELSE /\ selected_files[idx] \notin DOMAIN to_transcribe'
                  /\ selected_files[idx] \in done_vids' ]_vars

C2_Witness ==
    /\ idx > 1
    /\ Logged("api_error", selected_files[idx - 1])
    /\ Logged("finished", selected_files[idx - 1])
    /\ selected_files[idx - 1] \in done_vids
    /\ txt_filename \in DOMAIN processed_files
    /\ processed_files[txt_filename][5] = ApiErrorText

\* ------------------------------------------------------------------------
\* C3
\* ------------------------------------------------------------------------

ResultEvents ==
    {"not_found", "extraction_failed", "transcription_failed", "finished"}

Results(f) == {k \in DOMAIN log : log[k][2] = f /\ log[k][1] \in ResultEvents}

\* C3: a failed item never ends the loop.  Inside the loop every candidate
\* before the current one has been counted, and when the run has ended every
\* candidate has exactly one result and succeeded + failed is the number of
\* candidates.
C3_EveryCandidateCounted ==
    /\ pc = "loop" => successful_files + failed_files = idx - 1
    /\ pc = "done" =>
          /\ successful_files + failed_files = Len(selected_files)
          /\ \A k \in DOMAIN selected_files :
                Cardinality(Results(selected_files[k])) = 1

C3_Witness ==
    /\ pc = "done"
    /\ Len(selected_files) = 3
    /\ successful_files = 1
    /\ \E f \in Range(selected_files) : Logged("extraction_failed", f)
    /\ \E f \in Range(selected_files) : Logged("transcription_failed", f)

\* ------------------------------------------------------------------------
\* C4
\* ------------------------------------------------------------------------

C5_UnsupportedExcluded ==
    /\ \A f \in Range(selected_files) : Supported(f)
    /\ \A k \in DOMAIN log : log[k][1] = "starting" => Supported(log[k][2])

\* ------------------------------------------------------------------------
\* C6
\* ------------------------------------------------------------------------

DownloadFailed == Logged("download_error", None)

\* C7 as stated: a run whose download failed counts at least one failed
\* item.
C7_FetchFailureCounted ==
    (pc = "done" /\ DownloadFailed) => failed_files >= 1

\* C7 amended: a failed download adds no candidate and is not counted.  The
\* candidates of the run are exactly the files staged in incoming, each of
\* them is processed in the run and the counts cover them only.
C7_FetchFailureSkipped ==
    /\ [][ (runs' = runs + 1 /\ <<"download_error", None>> \in Range(log')) =>
             /\ downloaded_file' = None
             /\ to_transcribe' = to_transcribe
             /\ Range(selected_files') = DOMAIN to_transcribe
             /\ Len(selected_files') = Cardinality(DOMAIN to_transcribe) ]_vars
    /\ []((pc = "done" /\ DownloadFailed) =>
             /\ successful_files + failed_files = Len(selected_files)
             /\ \A f \in Range(selected_files) : Logged("starting", f))

C7_Witness ==
    /\ pc = "done"
    /\ DownloadFailed
    /\ Len(selected_files) = 2
    /\ successful_files = 2
    /\ failed_files = 0

\* ------------------------------------------------------------------------
\* C8
\* ------------------------------------------------------------------------

\* C8: right after an item's audio extraction failed, the original video is
\* in incoming and incoming holds no extracted or empty audio file under
\* the item's audio name.
C8_NoOrphanAfterFailedExtraction ==
    (idx > 1 /\ Logged("extraction_failed", selected_files[idx - 1])) =>
        LET f == selected_files[idx - 1]
            output_audio_file == splitext(f)[1] \o mp3
        IN  /\ f \in DOMAIN to_transcribe
            /\ ~ /\ output_audio_file \in DOMAIN to_transcribe
                 /\ to_transcribe[output_audio_file] \in {"audio", "empty"}

\* ------------------------------------------------------------------------
\* C9
\* ------------------------------------------------------------------------

\* C9: when a run has ended, the mapping has as many entries as items
\* succeeded.
C9_OneEntryPerSucceeded ==
    pc = "done" => Cardinality(DOMAIN processed_files) = successful_files

\* ------------------------------------------------------------------------
\* C10
\* ------------------------------------------------------------------------

\* C10: no name is twice in the candidate list, also when the downloaded
\* file is in the listing of incoming, and process_single_file is called
\* once on each candidate: on those before the current one inside the loop,
\* on all of them when the run has ended.
C10_CandidatesOnce ==
    /\ \A j, k \in DOMAIN selected_files :
          selected_files[j] = selected_files[k] => j = k
    /\ \A k \in DOMAIN selected_files :
          TimesLogged(log, "starting", selected_files[k])
             = (IF k < idx THEN 1 ELSE 0)
    /\ pc = "done" /\ selected_files # <<>> => idx = Len(selected_files) + 1

C10_Witness ==
    /\ pc = "done"
    /\ downloaded_file # None
    /\ Len(selected_files) = 3
    /\ selected_files[1] = downloaded_file
    /\ downloaded_file \in done_vids
\* ------------------------------------------------------------------------
\* C11
\* ------------------------------------------------------------------------

\* the step is a click on Start
Click == runs' = runs + 1

\* the name under which extract_audio writes the audio of the video g
audio_name(g) == splitext(g)[1] \o mp3

\* no video candidate of the run writes its working audio file under f
NoWorkingFileNamed(f) ==
    \A g \in Range(selected_files) : ~(IsVideo(g) /\ audio_name(g) = f)

ClassifiedByCounts ==
    /\ report = "all-succeeded" <=> failed_files = 0
    /\ report = "all-failed" <=> (successful_files = 0 /\ failed_files > 0)
    /\ report = "mixed" <=> (successful_files > 0 /\ failed_files > 0)

\* C12 as stated: after each run the classification is all-succeeded
\* exactly when failed = 0, all-failed exactly when succeeded = 0 and
\* failed > 0, mixed exactly when both counts are positive.
C12_ClassifiedAfterEachRun == pc = "done" => ClassifiedByCounts

\* C12 amended: after each run that had at least one candidate the
\* classification is the one the counts give; a run without candidates has
\* no failed item and reports no classification but the no-files warning.
C12_ClassifiedWhenCandidates ==
    pc = "done" =>
        IF selected_files # <<>>
        THEN ClassifiedByCounts
        ELSE /\ report = "no-files"
             /\ successful_files = 0 /\ failed_files = 0

C12_Witness ==
    /\ pc = "done"
    /\ report = "all-failed"
    /\ successful_files = 0
    /\ failed_files = 2
\* ------------------------------------------------------------------------
\* C13
\* ------------------------------------------------------------------------

\* C13: whatever the name, the value of sanitize_filename holds no space,
\* no parenthesis and none of \ / * ? : " < > |.
C13_NoDangerousCharacter ==
    sanitized_name # None =>
        \A k \in DOMAIN sanitized_name :
            sanitized_name[k] \notin Problematic \cup {" "}
\* ------------------------------------------------------------------------
\* C14
\* ------------------------------------------------------------------------

\* the item of the last iteration
LastItem == selected_files[idx - 1]

\* the last iteration ended with a succeeded result
LastSucceeded == idx > 1 /\ Logged("finished", LastItem)

\* name is file with the part from its last dot on replaced by .txt
ExtensionReplaced(file, name) ==
    \E k \in DOMAIN file :
        /\ file[k] = "."
        /\ \A j \in (k + 1)..Len(file) : file[j] # "."
        /\ name = SubSeq(file, 1, k - 1) \o <<".", "t", "x", "t">>

EventsOf(f) ==
    LET own == SelectSeq(log, LAMBDA e : e[2] = f)
    IN  [k \in DOMAIN own |-> own[k][1]]

\* the lines that tell a stage was entered, in the order of the stages
StageOrder ==
    <<"starting", "extracting", "transcribing", "analyzing", "moving">>

\* the stages are entered in their order: of two stages entered, the earlier
\* one is logged first
InStageOrder(ev) ==
    \A i, j \in DOMAIN ev : \A a, b \in DOMAIN StageOrder :
        (ev[i] = StageOrder[a] /\ ev[j] = StageOrder[b] /\ a < b) => i < j

\* a stage is entered only after the stage before it succeeded
AfterSuccess(f, ev) ==
    /\ "extracting" \in Range(ev) <=> (IsVideo(f) /\ "not_found" \notin Range(ev))
    /\ "transcribing" \in Range(ev) =>
          /\ "starting" \in Range(ev) /\ "not_found" \notin Range(ev)
          /\ IsVideo(f) => "extracted" \in Range(ev)
    /\ "analyzing" \in Range(ev) => "transcribed" \in Range(ev)
    /\ "moving" \in Range(ev) => "analyzing" \in Range(ev)

\* nothing is logged for the item after a line of fails
LastLine(ev, fails) ==
    \A k \in DOMAIN ev : ev[k] \in fails => k = Len(ev)

\* C15 as stated: the stages of an item run in order, each only after the
\* one before it succeeded, and after a failed stage, the analysis
\* included, no later stage and no move to done is entered.
C15_OrderedShortCircuit ==
    \A k \in DOMAIN selected_files :
        k < idx =>
            LET f == selected_files[k]
            IN  /\ InStageOrder(EventsOf(f))
                /\ AfterSuccess(f, EventsOf(f))
                /\ LastLine(EventsOf(f), {"not_found", "extraction_failed",
                                          "transcription_failed", "api_error"})

\* C15 amended: the stages of an item run in order, each only after the one
\* before it succeeded, and after a failed locate, extract or transcribe no
\* later stage is entered; a failed analysis does not stop the item, whose
\* artifact is composed and whose move to done is entered all the same.
C15_OrderedShortCircuitButAnalysis ==
    \A k \in DOMAIN selected_files :
        k < idx =>
            LET f == selected_files[k]
            IN  /\ InStageOrder(EventsOf(f))
                /\ AfterSuccess(f, EventsOf(f))
                /\ LastLine(EventsOf(f), {"not_found", "extraction_failed",
                                          "transcription_failed"})
                /\ "api_error" \in Range(EventsOf(f)) =>
                      /\ "moving" \in Range(EventsOf(f))
                      /\ "finished" \in Range(EventsOf(f))

C15_Witness ==
    /\ pc = "done"
    /\ \E f \in Range(selected_files) :
          EventsOf(f) = <<"starting", "extracting", "extraction_failed">>
    /\ \E f \in Range(selected_files) :
          EventsOf(f) = <<"starting", "transcribing", "transcription_failed">>
    /\ \E f \in Range(selected_files) :
          EventsOf(f) = <<"starting", "transcribing", "transcribed",
                          "analyzing", "api_error", "moving", "finished">>
\* ------------------------------------------------------------------------
\* C16
\* ------------------------------------------------------------------------

\* the files staged for processing: uploaded or downloaded ones
Staged == {n \in DOMAIN to_transcribe : to_transcribe[n] \in {"upload", "fetched"}}

\* C16: the processing of an item leaves the staged file of every other
\* item in incoming as it is.
C16_OtherItemsUntouched ==
    [][ Iteration =>
          \A n \in Staged \ {selected_files[idx]} :
              /\ n \in DOMAIN to_transcribe'
              /\ to_transcribe'[n] = to_transcribe[n] ]_vars

\* ------------------------------------------------------------------------
\* C17
\* ------------------------------------------------------------------------

\* the iteration is one in which the cleanup of the item raised
CleanupFailedNow ==
    Iteration /\ <<"cleanup_error", selected_files[idx]>> \in Range(log')

\* C17: an item whose cleanup raised, after its artifact was composed, is
\* returned and counted as succeeded and its artifact is recorded in the
\* mapping.
C17_CleanupFailureKeepsSuccess ==
    [][ CleanupFailedNow =>
          /\ <<"finished", selected_files[idx]>> \in Range(log')
          /\ successful_files' = successful_files + 1
          /\ failed_files' = failed_files
          /\ txt_filename' = txt_name(selected_files[idx])
          /\ content' # None
          /\ txt_filename' \in DOMAIN processed_files'
          /\ processed_files'[txt_filename'] = content' ]_vars

C17_Witness ==
    /\ LastSucceeded
    /\ MoveFailed(log, LastItem)
    /\ LastItem \in DOMAIN to_transcribe
    /\ LastItem \notin done_vids
    /\ successful_files >= 1
    /\ txt_filename \in DOMAIN processed_files

\* ------------------------------------------------------------------------
\* C18
\* ------------------------------------------------------------------------

\* the artifact names of the items that succeeded in the current run
SucceededNames ==
    {txt_name(f) : f \in {g \in Range(selected_files) : Logged("finished", g)}}

\* C18: the mapping is emptied when Start is clicked, and during and after
\* a run it holds the artifacts of the items that succeeded in that run and
\* no other, also when the run has no candidates.
C18_SummaryOfThisRunOnly ==
    /\ [][ Click => processed_files' = EmptyDir ]_vars
    /\ []((pc \in {"loop", "done"}) => DOMAIN processed_files = SucceededNames)

C18_Witness ==
    /\ pc = "done"
    /\ runs = 2
    /\ selected_files # <<>>
    /\ failed_files = Len(selected_files)
    /\ processed_files = EmptyDir
    /\ done_vids # {}

\* ------------------------------------------------------------------------
\* C19
\* ------------------------------------------------------------------------

\* C19: when a run has ended, incoming holds no audio file that extract_audio
\* wrote for a video item that failed in the run.
C19_NoWorkingFileLeft ==
    pc = "done" =>
        \A f \in Range(selected_files) :
            (/\ IsVideo(f)
             /\ \/ Logged("extraction_failed", f)
                \/ Logged("transcription_failed", f))
               => ~ /\ audio_name(f) \in DOMAIN to_transcribe
                    /\ to_transcribe[audio_name(f)] = "audio"

====
